---------------------------- MODULE Spec2Model ----------------------------
(***************************************************************************)
(* Client-side incremental search of the blog (static/js/search.js):       *)
(* the teaser builder makeTeaser, the result renderer                      *)
(* formatSearchResultItem and the search controller initSearch / doSearch  *)
(* with its debounced oninput handler.                                     *)
(*                                                                         *)
(* A JavaScript string is a sequence of characters, each character a       *)
(* one-element TLA+ string; the ellipsis character U+2026 is written       *)
(* Ellipsis.  Time is counted in the time units of setTimeout.             *)
(***************************************************************************)
EXTENDS Integers, Sequences, FiniteSets, TLC

VARIABLES
    \* ---- the page the script runs in
    pc,            \* "loading" before initSearch has run, "ready" after, "off"
    hasInput,      \* document.getElementById("search-input") is an element
    hasResults,    \* document.querySelector(".search-results") is an element
    hasItems,      \* document.querySelector(".search-results__items") is one
    hasIndex,      \* window.searchIndex is truthy
    \* ---- the controller (the closure of initSearch)
    bound,         \* $searchInput.oninput is the debounce handler
    fuseBuilt,     \* new Fuse(...) was constructed
    inputValue,    \* $searchInput.value
    currentTerm,   \* currentTerm
    display,       \* $searchResults.style.display
    items,         \* $searchResultsItems.innerHTML, as its sequence of fragments
    timers,        \* pending setTimeout callbacks: time left, in creation order
    debounceTimer, \* what the handle debounceTimer refers to
    \* ---- observation of the run (not program state)
    sinceInput,    \* time since the last input event, capped at DEBOUNCE_MS
    sinceEval,     \* time since the last run of doSearch, capped; -1: none yet
    burstLen,      \* input events of the current burst, capped at BurstCap
    burstEvals,    \* evaluations since the current burst of input events began
    evalLog,       \* what the last run of doSearch did
    errors,        \* an uncaught exception was raised
    \* ---- one call of makeTeaser
    tpc,           \* "idle" before the call, "done" after, "off"
    tBody,         \* argument body
    tTerms,        \* argument terms
    tExcerpt,      \* the local teaser after line 16 (before highlighting)
    tTeaser,       \* the returned string
    tMarks         \* number of replacements made by the highlighting passes

ctlVars == <<pc, hasInput, hasResults, hasItems, hasIndex, bound, fuseBuilt,
             inputValue, currentTerm, display, items, timers, debounceTimer,
             sinceInput, sinceEval, burstLen, burstEvals, evalLog, errors>>
teaserVars == <<tpc, tBody, tTerms, tExcerpt, tTeaser, tMarks>>
vars == <<ctlVars, teaserVars>>

---------------------------------------------------------------------------
(* Characters and strings *)

Ellipsis == "..."
Space == " "
Tab == "\t"

Min(a, b) == IF a < b THEN a ELSE b
Max(a, b) == IF a > b THEN a ELSE b

\* the character c, n times
Repeat(c, n) == [i \in 1..n |-> c]

\* String.prototype.toLowerCase, on the letters of the model
ToLowerChar(c) ==
    CASE c = "A" -> "a"
      [] c = "B" -> "b"
      [] c = "X" -> "x"
      [] OTHER -> c

toLowerCase(s) == [i \in 1..Len(s) |-> ToLowerChar(s[i])]

\* s has t at the 0-based index i, character for character
OccursAt(s, t, i) ==
    /\ i + Len(t) <= Len(s)
    /\ \A k \in 1..Len(t) : s[i + k] = t[k]

\* String.prototype.indexOf: the smallest 0-based index of t in s, or -1
indexOf(s, t) ==
    LET found == {i \in 0..Len(s) : OccursAt(s, t, i)}
    IN  IF found = {} THEN -1
        ELSE CHOOSE i \in found : \A j \in found : i <= j

\* String.prototype.substring(start, end) for 0 <= start <= end <= length
substring(s, start, end) == SubSeq(s, start + 1, end)

\* String.prototype.trim strips white space (space, tab, ...) at both ends
IsWhiteSpace(c) == c \in {Space, Tab}

trim(s) ==
    LET keep == {i \in 1..Len(s) : ~IsWhiteSpace(s[i])}
    IN  IF keep = {} THEN <<>>
        ELSE LET lo == CHOOSE i \in keep : \A j \in keep : i <= j
                 hi == CHOOSE i \in keep : \A j \in keep : i >= j
             IN  SubSeq(s, lo, hi)

---------------------------------------------------------------------------
(* makeTeaser(body, terms) *)

TEASER_MAX_CHARS == 200
CONTEXT_CHARS == 50

RECURSIVE FirstTermLoop_LastWins(_, _, _, _)
FirstTermLoop_LastWins(lowerBody, terms, i, firstTermIndex) ==
    IF i > Len(terms) THEN firstTermIndex
    ELSE LET idx == indexOf(lowerBody, toLowerCase(terms[i]))
         IN  FirstTermLoop_LastWins(lowerBody, terms, i + 1,
                 IF idx # -1 THEN idx ELSE firstTermIndex)

\* lines 5-12: the loop that finds firstTermIndex
RECURSIVE FirstTermLoop(_, _, _, _)
FirstTermLoop(lowerBody, terms, i, firstTermIndex) ==
    IF i > Len(terms) THEN firstTermIndex
    ELSE LET idx == indexOf(lowerBody, toLowerCase(terms[i]))
         IN  FirstTermLoop(lowerBody, terms, i + 1,
                 IF idx # -1 /\ (firstTermIndex = -1 \/ idx < firstTermIndex)
                 THEN idx ELSE firstTermIndex)

FirstTermIndex(body, terms) == FirstTermLoop(toLowerCase(body), terms, 1, -1)

\* line 14
TeaserStart(body, terms) == Max(0, FirstTermIndex(body, terms) - CONTEXT_CHARS)

TeaserEnd_NoCap(body, start) == Len(body)

\* line 15
TeaserEnd(body, start) == Min(Len(body), start + TEASER_MAX_CHARS)

LeadingEllipsis_Always(start) == start >= 0

\* line 16: start > 0 ? '...' : ''
LeadingEllipsis(start) == start > 0

\* line 16: the excerpt with its ellipses
Excerpt(body, terms) ==
    LET start == TeaserStart(body, terms)
        end == TeaserEnd(body, start)
    IN  (IF LeadingEllipsis(start) THEN <<Ellipsis>> ELSE <<>>)
        \o substring(body, start, end)
        \o (IF end < Len(body) THEN <<Ellipsis>> ELSE <<>>)

OpenTag == <<"<", "b", ">">>
CloseTag == <<"<", "/", "b", ">">>

\* The regular expression /(term)/gi, the term escaped so that it matches
\* literally and the 'i' flag making it case-insensitive: the 1-based start
\* of its first match in s at or after position i, 0 when there is none.
\* ls and lt are s and the term in lower case.  An empty term matches the
\* empty string at every position, the end of s included.
NextMatch(ls, lt, i) ==
    LET found == {j \in i..(Len(ls) - Len(lt) + 1) : OccursAt(ls, lt, j - 1)}
    IN  IF found = {} THEN 0
        ELSE CHOOSE j \in found : \A k \in found : j <= k

\* the starts of the matches a global replace finds, left to right, each
\* search resuming after the match before (one further on after an empty one)
RECURSIVE MatchStartsFrom(_, _, _)
MatchStartsFrom(ls, lt, i) ==
    LET j == NextMatch(ls, lt, i)
    IN  IF j = 0 THEN {}
        ELSE {j} \cup MatchStartsFrom(ls, lt, j + Max(1, Len(lt)))

MatchStarts(s, t) == MatchStartsFrom(toLowerCase(s), toLowerCase(t), 1)

\* line 20: teaser.replace(regex, '<b>$1</b>')
RECURSIVE ReplaceFrom(_, _, _, _)
ReplaceFrom(s, ls, lt, i) ==
    LET j == NextMatch(ls, lt, i)
        n == Len(lt)
    IN  IF j = 0 THEN SubSeq(s, i, Len(s))
        ELSE SubSeq(s, i, j - 1)
             \o OpenTag \o SubSeq(s, j, j + n - 1) \o CloseTag
             \o (IF n = 0 /\ j <= Len(s) THEN <<s[j]>> ELSE <<>>)
             \o ReplaceFrom(s, ls, lt, j + Max(1, n))

\* the replace without the 'g' flag: the first match only
ReplaceAll_FirstOnly(s, t) ==
    LET j == NextMatch(toLowerCase(s), toLowerCase(t), 1)
    IN  IF j = 0 THEN s
        ELSE SubSeq(s, 1, j - 1)
             \o OpenTag \o SubSeq(s, j, j + Len(t) - 1) \o CloseTag
             \o SubSeq(s, j + Len(t), Len(s))

ReplaceAll(s, t) == ReplaceFrom(s, toLowerCase(s), toLowerCase(t), 1)

\* lines 18-21: terms.forEach, each pass on the output of the one before
RECURSIVE Highlight(_, _, _)
Highlight(teaser, terms, i) ==
    IF i > Len(terms) THEN teaser
    ELSE Highlight(ReplaceAll(teaser, terms[i]), terms, i + 1)

\* the number of replacements the passes of Highlight make
RECURSIVE HighlightMarks(_, _, _)
HighlightMarks(teaser, terms, i) ==
    IF i > Len(terms) THEN 0
    ELSE Cardinality(MatchStarts(teaser, terms[i]))
         + HighlightMarks(ReplaceAll(teaser, terms[i]), terms, i + 1)

makeTeaser(body, terms) ==
    IF body = <<>> THEN <<>>
    ELSE Highlight(Excerpt(body, terms), terms, 1)

---------------------------------------------------------------------------
(* The calls of makeTeaser that are checked: a body is filler text around   *)
(* one word, long enough for the window of 200 characters and the context  *)
(* of 50 characters to cut it on either side.                              *)

LongPad == 151
FarPad == 60

PrePads == {0, CONTEXT_CHARS, CONTEXT_CHARS + 1, FarPad}
PostPads == {0, TEASER_MAX_CHARS - CONTEXT_CHARS - 2, LongPad}
BodyWords == {<<>>, <<"a", "b">>, <<"a", "b", " ", "A", "b", "a">>}

TeaserBodies ==
    {Repeat("x", pre) \o w \o Repeat("x", post) :
        pre \in PrePads, w \in BodyWords, post \in PostPads}

TermWords == {<<"a", "b">>, <<"b">>, <<"B", "A">>, <<"z">>, <<Ellipsis>>,
              <<"x", Ellipsis>>}

TeaserTerms ==
    {<<>>} \cup {<<t>> : t \in TermWords}
           \cup {<<t, u>> : t \in TermWords, u \in TermWords}

TeaserIdle ==
    /\ tExcerpt = <<>>
    /\ tTeaser = <<>>
    /\ tMarks = 0

TeaserOff ==
    /\ tpc = "off"
    /\ tBody = <<>>
    /\ tTerms = <<>>
    /\ TeaserIdle

TeaserInit ==
    /\ tpc = "idle"
    /\ tBody \in TeaserBodies
    /\ tTerms \in TeaserTerms
    /\ TeaserIdle

CallMakeTeaser ==
    /\ tpc = "idle"
    /\ tpc' = "done"
    /\ tExcerpt' = IF tBody = <<>> THEN <<>> ELSE Excerpt(tBody, tTerms)
    /\ tTeaser' = makeTeaser(tBody, tTerms)
    /\ tMarks' = IF tBody = <<>> THEN 0
                 ELSE HighlightMarks(Excerpt(tBody, tTerms), tTerms, 1)
    /\ UNCHANGED <<tBody, tTerms, ctlVars>>

---------------------------------------------------------------------------
(* The search index and the matching engine (Fuse, an external library) *)

MAX_ITEMS == 20
DEBOUNCE_MS == 150

\* the engine may return this many matches more than MAX_ITEMS
ExtraResults == 2

NDocs == MAX_ITEMS + ExtraResults
DocIds == 1..NDocs

\* window.searchIndex: document d has title d, url d and one of a few bodies
DocBody(d) ==
    CASE d % 3 = 0 -> <<"a", " ", "b">>
      [] d % 3 = 1 -> <<"A", "b">>
      [] OTHER -> <<>>

\* fuse.search(term): a ranked sequence of distinct documents, of the
\* engine's choosing
ResultCounts == {0, 1, 2, MAX_ITEMS - 1, MAX_ITEMS, MAX_ITEMS + 1, NDocs}

SearchResults ==
    {[i \in 1..n |-> i] : n \in ResultCounts}
    \cup {[i \in 1..n |-> NDocs + 1 - i] : n \in ResultCounts}

---------------------------------------------------------------------------
(* formatSearchResultItem and the list $searchResultsItems.innerHTML, kept  *)
(* as the sequence of fragments appended to it                             *)

\* line 67
NoResultsHTML == [kind |-> "placeholder", doc |-> 0, teaser |-> <<>>, hr |-> FALSE]

\* line 71: term.split(" ") cuts at every space character and at nothing
\* else; the filter drops the empty tokens
RECURSIVE SplitLoop(_, _, _, _)
SplitLoop(s, i, cur, acc) ==
    IF i > Len(s) THEN Append(acc, cur)
    ELSE IF s[i] = Space THEN SplitLoop(s, i + 1, <<>>, Append(acc, cur))
         ELSE SplitLoop(s, i + 1, Append(cur, s[i]), acc)

split(s) == SplitLoop(s, 1, <<>>, <<>>)

SplitTerms(term) == SelectSeq(split(term), LAMBDA t : Len(t) > 0)

\* the values the user gives the text input
Queries ==
    { <<>>, <<Space>>, <<"a">>, <<"a", Space>>, <<Space, "a">>,
      <<"a", Space, "b">>, <<"a", Tab, "b">>, <<"b">> }

\* makeTeaser is a pure function: its values on the bodies of the index and
\* the term sequences of the queries, computed once
IndexBodies == {DocBody(d) : d \in DocIds}
QueryTerms == {SplitTerms(trim(q)) : q \in Queries}
TeaserTable ==
    [body \in IndexBodies, terms \in QueryTerms |-> makeTeaser(body, terms)]

\* lines 26-33; item.item is the document, isLast decides the <hr>
formatSearchResultItem(item, terms, isLast) ==
    [kind |-> "item", doc |-> item,
     teaser |-> TeaserTable[DocBody(item), terms], hr |-> ~isLast]

---------------------------------------------------------------------------
(* doSearch *)

NoEval == [kind |-> "none", read |-> <<>>, at |-> 0, gap |-> -1,
           cleared |-> FALSE,
           searched |-> FALSE, query |-> <<>>, results |-> <<>>,
           terms |-> <<>>]

SameTerm_Never(term, cur) == FALSE

\* line 57
SameTerm(term, cur) == term = cur

\* line 59
PanelDisplay(term) == IF term = <<>> THEN "none" ELSE "block"

StopsOnEmpty_Never(term) == FALSE

\* line 63
StopsOnEmpty(term) == term = <<>>

NoMatches_Never(results) == FALSE

\* line 66
NoMatches(results) == Len(results) = 0

ItemCount_NoCap(results) == Len(results)

\* line 72
ItemCount(results) == Min(Len(results), MAX_ITEMS)

\* line 74: i counts from 0
IsLast(i, count) == i = count - 1

RenderLoop_Reversed(results, terms) ==
    LET count == ItemCount(results)
    IN  [i \in 1..count |->
            formatSearchResultItem(results[count + 1 - i], terms,
                                   IsLast(i - 1, count))]

\* lines 72-75: the fragments the loop appends to the list
RenderLoop(results, terms) ==
    LET count == ItemCount(results)
    IN  [i \in 1..count |->
            formatSearchResultItem(results[i], terms, IsLast(i - 1, count))]

ClearList_Keep(list) == list

\* line 60
ClearList(list) == <<>>

SearchArgument_Untrimmed(value, term) == value

\* line 65: the argument of fuse.search; value is $searchInput.value
SearchArgument(value, term) == term

\* What one run of doSearch does.  Without the .search-results element line
\* 59 throws a TypeError; without the .search-results__items element line 60
\* throws it, after line 59 has written the panel's style.
doSearch ==
    LET term == trim(inputValue)
        log == [NoEval EXCEPT !.read = inputValue, !.at = sinceInput,
                              !.gap = sinceEval]
        cleared == ClearList(items)
    IN  IF SameTerm(term, currentTerm)
        THEN /\ evalLog' = [log EXCEPT !.kind = "noop"]
             /\ UNCHANGED <<currentTerm, display, items, errors>>
        ELSE IF ~hasResults
        THEN /\ evalLog' = [log EXCEPT !.kind = "threw"]
             /\ errors' = TRUE
             /\ UNCHANGED <<currentTerm, display, items>>
        ELSE IF ~hasItems
        THEN /\ display' = PanelDisplay(term)
             /\ evalLog' = [log EXCEPT !.kind = "threw"]
             /\ errors' = TRUE
             /\ UNCHANGED <<currentTerm, items>>
        ELSE /\ display' = PanelDisplay(term)
             /\ currentTerm' = term
             /\ UNCHANGED errors
             /\ IF StopsOnEmpty(term)
                THEN /\ items' = cleared
                     /\ evalLog' = [log EXCEPT !.kind = "hidden",
                                               !.cleared = TRUE]
                ELSE \E results \in SearchResults :
                        LET terms == SplitTerms(term)
                        IN  /\ items' = IF NoMatches(results)
                                        THEN <<NoResultsHTML>>
                                        ELSE cleared \o RenderLoop(results, terms)
                            /\ evalLog' =
                                 [log EXCEPT !.kind = "searched",
                                             !.cleared = TRUE,
                                             !.searched = TRUE,
                                             !.query = SearchArgument(inputValue, term),
                                             !.results = results,
                                             !.terms = IF NoMatches(results)
                                                       THEN <<>> ELSE terms]

---------------------------------------------------------------------------
(* Timers: setTimeout and clearTimeout.  timers holds the time left of     *)
(* every pending callback, oldest first; all have the same delay, so the   *)
(* oldest is due first.  debounceTimer is "undefined" before the first     *)
(* setTimeout, "pending" while the callback it names (the newest) is       *)
(* pending, "fired" once that callback has run.                            *)

clearTimeout_Noop(ts, handle) == ts

\* line 79
clearTimeout(ts, handle) ==
    IF handle = "pending" THEN SubSeq(ts, 1, Len(ts) - 1) ELSE ts

setTimeout(ts, delay) == Append(ts, delay)

OnInputTimers_NoClear(ts, handle) == setTimeout(ts, DEBOUNCE_MS)

\* lines 79-80
OnInputTimers(ts, handle) ==
    setTimeout(clearTimeout(ts, handle), DEBOUNCE_MS)

Due == timers # <<>> /\ Head(timers) = 0

---------------------------------------------------------------------------
(* The page: what the user types and how time passes *)

BurstCap == 3

TickSteps == {50, 149}

CtlInit ==
    /\ bound = FALSE
    /\ fuseBuilt = FALSE
    /\ inputValue = <<>>
    /\ currentTerm = <<>>
    /\ display = "none"
    /\ items = <<>>
    /\ timers = <<>>
    /\ debounceTimer = "undefined"
    /\ sinceInput = DEBOUNCE_MS
    /\ sinceEval = -1
    /\ burstLen = 0
    /\ burstEvals = 0
    /\ evalLog = NoEval
    /\ errors = FALSE

Init ==
    /\ pc = "loading"
    /\ hasInput \in BOOLEAN
    /\ hasResults \in BOOLEAN
    /\ hasItems \in BOOLEAN
    /\ hasIndex \in BOOLEAN
    /\ CtlInit
    /\ TeaserOff

CanActivate_InputOnly == hasInput

\* line 43
CanActivate == hasInput /\ hasIndex

\* lines 35-82, run once when the document is ready (lines 84-90)
initSearch ==
    /\ pc = "loading"
    /\ pc' = "ready"
    /\ bound' = CanActivate
    /\ fuseBuilt' = CanActivate
    /\ UNCHANGED <<hasInput, hasResults, hasItems, hasIndex, inputValue,
                   currentTerm, display, items, timers, debounceTimer,
                   sinceInput, sinceEval, burstLen, burstEvals, evalLog,
                   errors, teaserVars>>

\* An input event on the text input: the user has changed its value to v.
\* With the handler bound, lines 78-81 run.  A callback that is due runs
\* before a later event is dispatched.
Input(v) ==
    /\ pc \in {"loading", "ready"}
    /\ hasInput
    /\ ~Due
    /\ v # inputValue
    /\ inputValue' = v
    /\ sinceInput' = 0
    /\ burstLen' = IF sinceInput >= DEBOUNCE_MS THEN 1
                   ELSE Min(burstLen + 1, BurstCap)
    /\ IF bound
       THEN /\ timers' = OnInputTimers(timers, debounceTimer)
            /\ debounceTimer' = "pending"
            /\ burstEvals' = IF sinceInput >= DEBOUNCE_MS THEN 0 ELSE burstEvals
       ELSE UNCHANGED <<timers, debounceTimer, burstEvals>>
    /\ UNCHANGED <<pc, hasInput, hasResults, hasItems, hasIndex, bound,
                   fuseBuilt, currentTerm, display, items, sinceEval, evalLog,
                   errors, teaserVars>>

\* Time passes: d units, or less when a callback falls due before
Tick(d) ==
    /\ pc \in {"loading", "ready"}
    /\ ~Due
    /\ LET adv == IF timers = <<>> THEN d ELSE Min(d, Head(timers))
       IN  /\ timers' = [i \in 1..Len(timers) |-> timers[i] - adv]
           /\ sinceInput' = Min(sinceInput + adv, DEBOUNCE_MS)
           /\ sinceEval' = IF sinceEval = -1 THEN -1
                           ELSE Min(sinceEval + adv, DEBOUNCE_MS)
    /\ UNCHANGED <<pc, hasInput, hasResults, hasItems, hasIndex, bound,
                   fuseBuilt, inputValue, currentTerm, display, items,
                   debounceTimer, burstLen, burstEvals, evalLog, errors,
                   teaserVars>>

\* The oldest pending callback is due: doSearch runs
Fire ==
    /\ pc = "ready"
    /\ Due
    /\ timers' = Tail(timers)
    /\ debounceTimer' = IF Len(timers) = 1 /\ debounceTimer = "pending"
                        THEN "fired" ELSE debounceTimer
    /\ burstEvals' = Min(burstEvals + 1, BurstCap)
    /\ sinceEval' = 0
    /\ doSearch
    /\ UNCHANGED <<pc, hasInput, hasResults, hasItems, hasIndex, bound,
                   fuseBuilt, inputValue, sinceInput, burstLen, teaserVars>>

Next ==
    \/ initSearch
    \/ \E v \in Queries : Input(v)
    \/ \E d \in TickSteps : Tick(d)
    \/ Fire

Spec == Init /\ [][Next]_vars

(* The specification of the calls of makeTeaser *)

TeaserSpecInit ==
    /\ pc = "off"
    /\ hasInput = FALSE
    /\ hasResults = FALSE
    /\ hasItems = FALSE
    /\ hasIndex = FALSE
    /\ CtlInit
    /\ TeaserInit

TeaserNext == CallMakeTeaser

TeaserSpec == TeaserSpecInit /\ [][TeaserNext]_vars

---------------------------------------------------------------------------
(* Properties of the search controller, checked under Spec *)

\* C1: once initSearch has run, the results panel is visible (display
\* "block") if and only if currentTerm is non-empty.
PanelVisibleIffTerm ==
    (pc = "ready" /\ hasResults) =>
        ((display = "block") <=> (currentTerm # <<>>))

\* C2: a burst of input events, each less than DEBOUNCE_MS after the one
\* before, is evaluated exactly once: while the burst lasts one callback is
\* pending, due DEBOUNCE_MS after the last event, and none has run; once
\* DEBOUNCE_MS have passed since the last event the callback is due and then
\* has run once, at that time, reading the value the last event left.
DebounceOneEvaluation ==
    (bound /\ debounceTimer # "undefined") =>
        IF sinceInput < DEBOUNCE_MS
        THEN /\ burstEvals = 0
             /\ timers = <<DEBOUNCE_MS - sinceInput>>
        ELSE \/ /\ timers = <<0>>
                /\ burstEvals = 0
             \/ /\ timers = <<>>
                /\ burstEvals = 1
                /\ evalLog.at = DEBOUNCE_MS
                /\ evalLog.read = inputValue

BurstOfThreeEvaluatedOnce ==
    /\ burstLen = 3
    /\ burstEvals = 1
    /\ timers = <<>>
    /\ evalLog.kind = "searched"
    /\ evalLog.read = inputValue

\* C3: an evaluation whose trimmed input value equals currentTerm changes
\* neither currentTerm nor the panel nor the list, does not clear the list
\* and does not call the matching engine.
UnchangedTermIsNoOp ==
    [][(Fire /\ trim(inputValue) = currentTerm) =>
          /\ currentTerm' = currentTerm
          /\ display' = display
          /\ items' = items
          /\ ~evalLog'.cleared
          /\ ~evalLog'.searched]_vars

NoOpOnWhitespaceVariant ==
    /\ evalLog.kind = "noop"
    /\ currentTerm # <<>>
    /\ evalLog.read # currentTerm
    /\ display = "block"
    /\ items # <<>>

\* C4: an evaluation that reads an empty or whitespace-only value while
\* currentTerm is non-empty hides the panel, clears the list, sets
\* currentTerm to "" and does not call the matching engine.
ClearingHidesWithoutSearch ==
    [][(Fire /\ trim(inputValue) = <<>> /\ currentTerm # <<>>) =>
          /\ display' = "none"
          /\ items' = <<>>
          /\ currentTerm' = <<>>
          /\ ~evalLog'.searched]_vars

ClearedByWhitespace ==
    /\ evalLog.kind = "hidden"
    /\ evalLog.read = <<Space>>
    /\ display = "none"
    /\ items = <<>>
    /\ currentTerm = <<>>

\* C5: with the input element or the index missing the controller stays
\* idle: no handler bound, no engine constructed, no timer scheduled, no
\* evaluation run, panel and list never written.
MissingInputOrIndexStaysIdle ==
    (~hasInput \/ ~hasIndex) =>
        /\ ~bound
        /\ ~fuseBuilt
        /\ timers = <<>>
        /\ debounceTimer = "undefined"
        /\ evalLog = NoEval
        /\ display = "none"
        /\ items = <<>>
        /\ currentTerm = <<>>

TypedWithoutIndex ==
    /\ pc = "ready"
    /\ hasInput
    /\ ~hasIndex
    /\ inputValue = <<"a">>
    /\ sinceInput = DEBOUNCE_MS

\* C6: with the input element, the results container, the results list or
\* the index missing, the controller never activates and nothing raises an
\* error.
MissingBindingNeverActivates ==
    (~hasInput \/ ~hasResults \/ ~hasItems \/ ~hasIndex) =>
        /\ ~bound
        /\ ~errors

\* C7: a non-empty match list of n results is rendered as min(n, MAX_ITEMS)
\* result fragments, each but the last followed by a separator.
RendersAtMostMaxItems ==
    (evalLog.searched /\ evalLog.results # <<>>) =>
        LET n == Len(evalLog.results)
            m == IF n < MAX_ITEMS THEN n ELSE MAX_ITEMS
        IN  /\ Len(items) = m
            /\ \A i \in 1..Len(items) :
                  /\ items[i].kind = "item"
                  /\ items[i].hr = (i < m)

TruncatedToMaxItems ==
    /\ evalLog.searched
    /\ Len(evalLog.results) > MAX_ITEMS
    /\ Len(items) = MAX_ITEMS
    /\ ~items[MAX_ITEMS].hr

\* C8: when the engine returns no match for an accepted non-empty query the
\* list is exactly the "No results" placeholder and the panel is visible.
NoMatchesShowsPlaceholder ==
    (evalLog.searched /\ evalLog.results = <<>>) =>
        /\ items = <<NoResultsHTML>>
        /\ display = "block"

PlaceholderShown ==
    /\ evalLog.searched
    /\ evalLog.results = <<>>
    /\ currentTerm # <<>>
    /\ items = <<NoResultsHTML>>

\* the characters of the strings of seq, one string after the other
RECURSIVE Concat(_, _)
Concat(seq, i) == IF i > Len(seq) THEN <<>> ELSE seq[i] \o Concat(seq, i + 1)

\* C11: the terms passed to the renderer are the trimmed query split on
\* white space: each is non-empty and holds no white space character, and
\* together, in order, they are the query without its white space.
TermsSplitOnWhiteSpace ==
    (evalLog.searched /\ evalLog.results # <<>>) =>
        /\ \A i \in 1..Len(evalLog.terms) :
              /\ evalLog.terms[i] # <<>>
              /\ \A k \in 1..Len(evalLog.terms[i]) :
                    ~IsWhiteSpace(evalLog.terms[i][k])
        /\ Concat(evalLog.terms, 1)
             = SelectSeq(currentTerm, LAMBDA c : ~IsWhiteSpace(c))

\* C12: at most one evaluation is pending; an evaluation runs DEBOUNCE_MS
\* after the last input event, and at least DEBOUNCE_MS after the
\* evaluation before it.
OnePendingOneEvaluationPerWindow ==
    /\ Len(timers) <= 1
    /\ evalLog.kind # "none" =>
          /\ evalLog.at = DEBOUNCE_MS
          /\ evalLog.gap = -1 \/ evalLog.gap >= DEBOUNCE_MS

SecondEvaluationAfterWindow ==
    /\ evalLog.kind = "searched"
    /\ evalLog.gap = DEBOUNCE_MS
    /\ burstLen = BurstCap
    /\ timers = <<>>

\* C15: for an accepted query with n >= 1 matches the list is the first
\* min(n, MAX_ITEMS) matches in the engine's order: the i-th fragment is
\* the one built from the i-th match.
RenderedListIsRankedPrefix ==
    (evalLog.searched /\ evalLog.results # <<>>) =>
        LET n == Len(evalLog.results)
            m == IF n < MAX_ITEMS THEN n ELSE MAX_ITEMS
        IN  /\ Len(items) = m
            /\ \A i \in 1..m :
                  /\ items[i].doc = evalLog.results[i]
                  /\ items[i].teaser
                       = TeaserTable[DocBody(evalLog.results[i]), evalLog.terms]

DescendingRankingKept ==
    /\ evalLog.searched
    /\ Len(evalLog.results) = NDocs
    /\ evalLog.results[1] = NDocs
    /\ items[1].doc = NDocs
    /\ items[MAX_ITEMS].doc = NDocs + 1 - MAX_ITEMS

\* C16: once the input events have stopped and DEBOUNCE_MS has passed since
\* the last of them (its evaluation has run and none is pending),
\* currentTerm is the trimmed input value and the panel and the list are
\* those rendered for it.
SettlesOnCurrentInput ==
    (bound /\ debounceTimer = "fired" /\ timers = <<>>) =>
        /\ currentTerm = trim(inputValue)
        /\ display = PanelDisplay(currentTerm)
        /\ items = <<>> <=> currentTerm = <<>>

\* C17: with the controller activated, the list is empty if and only if
\* currentTerm is empty; a non-empty list is the placeholder alone or at
\* most MAX_ITEMS result fragments built for the terms of currentTerm, so
\* nothing of an earlier query is left in it.
ListEmptyIffTermEmpty ==
    bound =>
        /\ items = <<>> <=> currentTerm = <<>>
        /\ \/ items = <<>>
           \/ items = <<NoResultsHTML>>
           \/ /\ Len(items) <= MAX_ITEMS
              /\ \A i \in 1..Len(items) :
                    /\ items[i].kind = "item"
                    /\ items[i].hr = (i < Len(items))
                    /\ items[i].teaser
                         = TeaserTable[DocBody(items[i].doc),
                                       SplitTerms(currentTerm)]

ListClearedAfterQuery ==
    /\ bound
    /\ evalLog.kind = "hidden"
    /\ evalLog.gap # -1
    /\ currentTerm = <<>>
    /\ items = <<>>

\* C18: an evaluation calls the engine's search if and only if it changes
\* currentTerm to a non-empty value, the argument is the trimmed input
\* value, whole, and currentTerm is that value whatever the search returns;
\* no other step calls the search.
SearchOnlyForNewNonEmptyTerm ==
    [][/\ Fire =>
             /\ evalLog'.searched
                  <=> (currentTerm' # currentTerm /\ currentTerm' # <<>>)
             /\ evalLog'.searched =>
                   /\ evalLog'.query = trim(inputValue)
                   /\ currentTerm' = evalLog'.query
       /\ evalLog' # evalLog => Fire]_vars

ZeroMatchQueryRepeated ==
    /\ evalLog.kind = "noop"
    /\ ~evalLog.searched
    /\ currentTerm # <<>>
    /\ evalLog.read # currentTerm
    /\ items = <<NoResultsHTML>>

---------------------------------------------------------------------------
(* Properties of makeTeaser, checked under TeaserSpec *)

TeaserReturned == tpc = "done" /\ tBody # <<>>

MarkupChars == Len(OpenTag) + Len(CloseTag)

\* no term occurs in body, case-insensitively
NoTermOccurs ==
    \A i \in 1..Len(tTerms) :
        \A j \in 0..Len(tBody) :
            ~OccursAt(toLowerCase(tBody), toLowerCase(tTerms[i]), j)

NoTermHasEllipsis ==
    \A i \in 1..Len(tTerms) :
        \A k \in 1..Len(tTerms[i]) : tTerms[i][k] # Ellipsis

BodyPrefix == SubSeq(tBody, 1, Min(TEASER_MAX_CHARS, Len(tBody)))

\* C9 as stated: the returned string has at most 202 characters.
TeaserAtMost202 ==
    TeaserReturned => Len(tTeaser) <= TEASER_MAX_CHARS + 2

\* C9 as amended: the excerpt with its ellipses has at most 202 characters,
\* and the returned string has the excerpt's length plus the 7 characters
\* of markup of every replacement the highlighting made.
TeaserLengthBound ==
    TeaserReturned =>
        /\ Len(tExcerpt) <= TEASER_MAX_CHARS + 2
        /\ Len(tTeaser) = Len(tExcerpt) + MarkupChars * tMarks

LongTeaserWithMarkup ==
    /\ TeaserReturned
    /\ Len(tExcerpt) = TEASER_MAX_CHARS + 2
    /\ tMarks >= 2
    /\ Len(tTeaser) > TEASER_MAX_CHARS + 2

\* C10 as stated: when no term occurs in body the result is the first
\* min(200, length) characters of body followed by an ellipsis.
NoMatchTeaserEndsWithEllipsis ==
    (TeaserReturned /\ NoTermOccurs) =>
        tTeaser = BodyPrefix \o <<Ellipsis>>

\* C10 as amended: when no term occurs in body the excerpt is the first
\* min(200, length) characters of body, followed by an ellipsis exactly when
\* body has more than 200 characters and never preceded by one; it is
\* returned without markup when no term contains the ellipsis character.
NoMatchTeaser ==
    (TeaserReturned /\ NoTermOccurs) =>
        /\ tExcerpt = BodyPrefix \o (IF Len(tBody) > TEASER_MAX_CHARS
                                     THEN <<Ellipsis>> ELSE <<>>)
        /\ NoTermHasEllipsis => tTeaser = tExcerpt

NoMatchLongBody ==
    /\ TeaserReturned
    /\ NoTermOccurs
    /\ NoTermHasEllipsis
    /\ tTerms # <<>>
    /\ Len(tBody) > TEASER_MAX_CHARS
    /\ tTeaser = BodyPrefix \o <<Ellipsis>>

\* the 0-based indices of body at which some term occurs, case-insensitively
TermOccurrences ==
    LET lowerBody == toLowerCase(tBody)
        lowerTerms == [i \in 1..Len(tTerms) |-> toLowerCase(tTerms[i])]
    IN  {j \in 0..Len(tBody) :
            \E i \in 1..Len(tTerms) : OccursAt(lowerBody, lowerTerms[i], j)}

\* body[start, end) between its ellipses, for the window that starts
\* CONTEXT_CHARS before the first of the occurrences occ
WindowAt(body, occ) ==
    LET first == IF occ = {} THEN -1
                 ELSE CHOOSE j \in occ : \A k \in occ : j <= k
        start == IF first > CONTEXT_CHARS THEN first - CONTEXT_CHARS ELSE 0
        end == IF start + TEASER_MAX_CHARS < Len(body)
               THEN start + TEASER_MAX_CHARS ELSE Len(body)
    IN  [start |-> start, end |-> end,
         text |-> (IF start > 0 THEN <<Ellipsis>> ELSE <<>>)
                  \o SubSeq(body, start + 1, end)
                  \o (IF end < Len(body) THEN <<Ellipsis>> ELSE <<>>)]

\* C13: the excerpt is body[start, end) with start = max(0, first - 50),
\* first the smallest index at which any term occurs (start = 0 when none
\* does), and end = min(length, start + 200); an ellipsis leads it exactly
\* when start > 0 and trails it exactly when end < length.
ExcerptIsWindowAtFirstOccurrence ==
    TeaserReturned => tExcerpt = WindowAt(tBody, TermOccurrences).text

LaterTermOccursFirst ==
    /\ TeaserReturned
    /\ Len(tTerms) = 2
    /\ LET lowerBody == toLowerCase(tBody)
           first == indexOf(lowerBody, toLowerCase(tTerms[1]))
           second == indexOf(lowerBody, toLowerCase(tTerms[2]))
       IN  second # -1 /\ second < first
    /\ tExcerpt[1] = Ellipsis
    /\ tExcerpt[Len(tExcerpt)] = Ellipsis
    /\ Len(tExcerpt) = TEASER_MAX_CHARS + 2

\* the 1-based positions of s at which the non-empty term t occurs,
\* case-insensitively
OccurrencesIn(s, t) ==
    LET ls == toLowerCase(s)
        lt == toLowerCase(t)
    IN  {j \in 1..(Len(s) - Len(t) + 1) : OccursAt(ls, lt, j - 1)}

\* s from position i on, with the occurrences occ of a term of length n
\* wrapped in emphasis markup and everything else as it is
RECURSIVE WrapFrom(_, _, _, _)
WrapFrom(s, n, occ, i) ==
    LET rest == {j \in occ : j >= i}
    IN  IF rest = {} THEN SubSeq(s, i, Len(s))
        ELSE LET j == CHOOSE k \in rest : \A m \in rest : k <= m
             IN  SubSeq(s, i, j - 1)
                 \o <<"<", "b", ">">> \o SubSeq(s, j, j + n - 1)
                 \o <<"<", "/", "b", ">">>
                 \o WrapFrom(s, n, occ, j + n)

\* one pass after the other, in the order of the terms, each on the whole
\* output of the pass before
RECURSIVE WrapFold(_, _, _)
WrapFold(s, terms, i) ==
    IF i > Len(terms) THEN s
    ELSE WrapFold(WrapFrom(s, Len(terms[i]), OccurrencesIn(s, terms[i]), 1),
                  terms, i + 1)

\* C14: the returned string is the excerpt after one pass per term, in the
\* order of the terms, each pass wrapping every case-insensitive occurrence
\* of its term in the output of the pass before, markup included, and
\* leaving the rest unchanged; a single term's occurrences in the excerpt
\* are each wrapped once.
HighlightIsFoldOverTerms ==
    TeaserReturned =>
        /\ tTeaser = WrapFold(tExcerpt, tTerms, 1)
        /\ Len(tTerms) = 1 =>
              tMarks = Cardinality(OccurrencesIn(tExcerpt, tTerms[1]))

SecondTermMatchesMarkupOfFirst ==
    /\ TeaserReturned
    /\ tBody = <<"a", "b", " ", "A", "b", "a">>
    /\ tTerms = << <<"a", "b">>, <<"b">> >>
    /\ tMarks = 8
    /\ SubSeq(tTeaser, 1, 7) = <<"<", "<", "b", ">", "b", "<", "/">>

===========================================================================
